---- MODULE Spec2Model ----
(***************************************************************************)
(* A model of python_utils/flask_sqlalchemy_base.py: the lazy-value cache  *)
(* (lazy_property, LazyMixin), the parameter registry (register_parameter, *)
(* ParametrizedMixin), the version counter (Versions) and the versioned    *)
(* record (VersionedMixin).                                                *)
(***************************************************************************)
EXTENDS Integers, Sequences, FiniteSets, TLC

VARIABLES
    registry,   \* class -> its '__parameter_defaults__<Class>' attribute
    regLog,     \* history: the decorator applications, in order
    regRead,    \* history: registered_parameters() has been called
    regOp,      \* the last registry call and what it returned
    params,     \* the instance's persisted params column
    lazy,       \* the instance's '__lazy_<name>' attributes
    fresh,      \* history: no read of the lazy property since creation/invalidate
    op,         \* the last call on the instance and what it returned
    versions,   \* the versions table: counter rows, the id is the index
    issued,     \* history: per counter row, the value last returned for it
    entities,   \* the versioned class's table
    inst,       \* the in-memory versioned instance
    verOp,      \* the last versioning call and what it returned
    callers     \* two sessions running set_version step by step

vars == <<registry, regLog, regRead, regOp, params, lazy, fresh, op,
          versions, issued, entities, inst, verOp, callers>>

(***************************************************************************)
(* Python values.  A value is a tagged string: "i5" is the int 5, "s" the  *)
(* empty str, "sa" a non-empty str, "bF" the bool False, "None" is None.   *)
(***************************************************************************)
None == "None"
Values == {"None", "i0", "i5", "bF", "s", "sa"}

\* type(v).__name__
TypeOf(v) ==
    CASE v = "None" -> "NoneType"
      [] v \in {"i0", "i5"} -> "int"
      [] v = "bF" -> "bool"
      [] OTHER -> "str"

\* isinstance(v, t): bool is a subclass of int
IsInstance(v, t) == TypeOf(v) = t \/ (TypeOf(v) = "bool" /\ t = "int")

\* bool(v)
Truthy(v) == v \notin {"None", "i0", "bF", "s"}

(***************************************************************************)
(* The parameter registry.                                                 *)
(***************************************************************************)
\* Three classes: B is the root, A(B) and C(A).  dir() lists attribute names
\* sorted, so the registry fields come in the order of the class names.
Classes == {"A", "B", "C"}
DirOrder == <<"A", "B", "C">>
Bases == [c \in Classes |-> CASE c = "A" -> {"B"} [] c = "B" -> {} [] OTHER -> {"A"}]
Ancestors(c) == Bases[c] \cup UNION {Bases[b] : b \in Bases[c]}

RegNames == {"p", "q", "parameters"}
ParamNames == RegNames \cup {"u"}

Descriptor(cls, tcls, name, default, type) ==
    [section |-> cls, name |-> name, default |-> default, type |-> type, cls |-> tcls]

NamesOf(ps) == {ps[i].name : i \in DOMAIN ps}

\* [field for field in dir(cls) if field.startswith(PARAMETER_REGISTRY)]
ParentFields(reg, cls) ==
    SelectSeq(DirOrder, LAMBDA k : k \in ({cls} \cup Ancestors(cls)) /\ reg[k].built)

\* register_parameter.__call__, lines 117-124: the names seen are accumulated
RECURSIVE MergeCall(_, _, _)
MergeCall(reg, fields, seen) ==
    IF fields = <<>> THEN <<>>
    ELSE LET pp == reg[Head(fields)].params
         IN  SelectSeq(pp, LAMBDA d : d.name \notin seen)
                \o MergeCall(reg, Tail(fields), seen \cup NamesOf(pp))

\* registered_parameters, lines 170-172: parent_param_names is never added to
RECURSIVE MergeRegistered(_, _, _)
MergeRegistered(reg, fields, seen) ==
    IF fields = <<>> THEN <<>>
    ELSE LET pp == reg[Head(fields)].params
         IN  SelectSeq(pp, LAMBDA d : d.name \notin seen)
                \o MergeRegistered(reg, Tail(fields), seen)

\* register_parameter(...)(cls) with target class tcls (tcls = cls when none
\* is given): the registry after the call and whether it returned (TRUE) or
\* raised ValueError (FALSE)
RegisterCall(reg, cls, tcls, name, default, type) ==
    LET reg1 == IF ~reg[tcls].built
                THEN [reg EXCEPT ![tcls] =
                        [built |-> TRUE,
                         params |-> MergeCall(reg, ParentFields(reg, cls), {})]]
                ELSE reg
        found == name \in NamesOf(reg1[tcls].params)
    IN  IF found
        THEN [reg |-> reg1, ok |-> FALSE]
        ELSE [reg |-> [reg1 EXCEPT ![tcls].params =
                         Append(@, Descriptor(cls, tcls, name, default, type))],
              ok |-> TRUE]

\* cls.registered_parameters(): the registry after the call (the list returned
\* is reg[cls].params of it)
RegisteredParameters(reg, cls) ==
    IF ~reg[cls].built
    THEN [reg EXCEPT ![cls] =
            [built |-> TRUE,
             params |-> MergeRegistered(reg, ParentFields(reg, cls), {})]]
    ELSE reg

\* the first descriptor called name, if any
FirstNamed(ps, name) ==
    LET idx == {i \in DOMAIN ps : ps[i].name = name}
    IN  IF idx = {} THEN 0 ELSE CHOOSE i \in idx : \A j \in idx : i <= j

\* cls.parameter_default(name), on the registry registered_parameters() left
ParameterDefault(reg, cls, name) ==
    LET ps == RegisteredParameters(reg, cls)[cls].params
        i == FirstNamed(ps, name)
    IN  IF i = 0 THEN None ELSE ps[i].default

\* cls.parameter_type(name); "NoneObj" is the None it returns for no match
ParameterType(reg, cls, name) ==
    LET ps == RegisteredParameters(reg, cls)[cls].params
        i == FirstNamed(ps, name)
    IN  IF i = 0 THEN "NoneObj" ELSE ps[i].type

(***************************************************************************)
(* The lazy-value cache and the parametrized record: one instance of class *)
(* C.  Its class has two lazy properties: ParametrizedMixin.parameters and *)
(* a property p, declared by the class, that reads the document's entry p. *)
(***************************************************************************)
InstClass == "C"
LazyNames == {"parameters", "p"}
Missing == "<missing>"
NoName == "<None>"
EmptyDoc == [k \in ParamNames |-> Missing]

\* An attribute '__lazy_<name>'.  kind is the class of the cached object;
\* alias says that the cached object is the object the params column holds.
NoEntry == [cached |-> FALSE, kind |-> "none", alias |-> FALSE, doc |-> EmptyDoc, val |-> None]
DictEntry(kind, alias, doc) ==
    [cached |-> TRUE, kind |-> kind, alias |-> alias, doc |-> doc, val |-> None]
ScalarEntry(v) ==
    [cached |-> TRUE, kind |-> "scalar", alias |-> FALSE, doc |-> EmptyDoc, val |-> v]

\* ParametrizedMixin.parameters, the wrapped computation
Parameters(pr) ==
    IF pr.null \/ pr.doc = EmptyDoc
    THEN DictEntry("dict", FALSE, EmptyDoc)
    ELSE DictEntry("MutableDict", TRUE, pr.doc)

\* the computation f of the lazy property called n
LazyF(n, pr) ==
    IF n = "parameters" THEN Parameters(pr)
    ELSE ScalarEntry(IF pr.null \/ pr.doc["p"] = Missing THEN None ELSE pr.doc["p"])

\* a wrapper that returns what f computed without storing it
LazyReadNoStore(lz, pr, n) ==
    IF lz[n].cached
    THEN [lazy |-> lz, ret |-> lz[n], ran |-> FALSE]
    ELSE [lazy |-> lz, ret |-> LazyF(n, pr), ran |-> TRUE]

\* lazy_property_wrapper: the attributes after the read, the value returned
\* and whether f ran
LazyRead(lz, pr, n) ==
    IF lz[n].cached
    THEN [lazy |-> lz, ret |-> lz[n], ran |-> FALSE]
    ELSE LET v == LazyF(n, pr)
         IN  [lazy |-> [lz EXCEPT ![n] = v], ret |-> v, ran |-> TRUE]

\* hasattr(self, '__lazy_' + name)
HasLazy(lz, name) == name \in LazyNames /\ lz[name].cached

\* an invalidate that drops every cached entry whatever the name
InvalidateEverything(lz, name) == [n \in LazyNames |-> NoEntry]

\* LazyMixin.invalidate(property_name); NoName is the argument None
Invalidate(lz, name) ==
    IF name = NoName
    THEN [n \in LazyNames |-> NoEntry]
    ELSE IF HasLazy(lz, name) THEN [lz EXCEPT ![name] = NoEntry] ELSE lz

\* ParametrizedMixin.get(name, default): the value returned, and the lazy
\* attributes and registry it leaves
GetCall(pr, lz, reg, name, default) ==
    LET r == LazyRead(lz, pr, "parameters")
        dflt == IF Truthy(default) THEN default
                ELSE ParameterDefault(reg, InstClass, name)
        reg1 == IF Truthy(default) THEN reg ELSE RegisteredParameters(reg, InstClass)
    IN  [ret |-> IF r.ret.doc[name] # Missing THEN r.ret.doc[name] ELSE dflt,
         lazy |-> r.lazy, registry |-> reg1]

\* self.params = value: MutableDict.coerce keeps a MutableDict and copies a
\* plain dict into a new one
AssignParams(entry) ==
    [params |-> [null |-> FALSE, doc |-> entry.doc],
     entry |-> IF entry.kind = "MutableDict" THEN [entry EXCEPT !.alias = TRUE] ELSE entry]

\* a set that checks the name and not the type of the value
SetCallUntyped(pr, lz, reg, name, value) ==
    LET reg1 == RegisteredParameters(reg, InstClass)
    IN  IF ParameterType(reg, InstClass, name) = "NoneObj"
        THEN [ok |-> FALSE, params |-> pr, lazy |-> lz, registry |-> reg1]
        ELSE LET r1 == LazyRead(lz, pr, "parameters")
                 e1 == [r1.ret EXCEPT !.doc[name] = value]
                 a == AssignParams(e1)
             IN  [ok |-> TRUE, params |-> a.params,
                  lazy |-> [r1.lazy EXCEPT !["parameters"] = a.entry],
                  registry |-> reg1]

\* ParametrizedMixin.set(name, value): ok is FALSE when it raised ValueError
SetCall(pr, lz, reg, name, value) ==
    LET reg1 == RegisteredParameters(reg, InstClass)
        registered_type == ParameterType(reg, InstClass, name)
    IN  IF registered_type = "NoneObj"
        THEN [ok |-> FALSE, params |-> pr, lazy |-> lz, registry |-> reg1]
        ELSE IF ~IsInstance(value, registered_type) /\ ~(registered_type = "NoneObj")
        THEN [ok |-> FALSE, params |-> pr, lazy |-> lz, registry |-> reg1]
        ELSE LET r1 == LazyRead(lz, pr, "parameters")
                 \* self.parameters[name] = value
                 e1 == [r1.ret EXCEPT !.doc[name] = value]
                 pr1 == IF e1.alias THEN [pr EXCEPT !.doc[name] = value] ELSE pr
                 lz1 == [r1.lazy EXCEPT !["parameters"] = e1]
                 \* self.invalidate(name)
                 lz2 == Invalidate(lz1, name)
                 \* self.params = self.parameters
                 r2 == LazyRead(lz2, pr1, "parameters")
                 a == AssignParams(r2.ret)
             IN  [ok |-> TRUE, params |-> a.params,
                  lazy |-> [r2.lazy EXCEPT !["parameters"] = a.entry],
                  registry |-> reg1]

NoOp == [kind |-> "init", name |-> NoName, arg |-> None, ok |-> TRUE, ret |-> None,
         ran |-> FALSE, had |-> FALSE, entry |-> NoEntry]

\* registries the decorators of B, A(B) and C(A) leave: B registers p, A
\* registers parameters, and C either registers q or is not decorated
RegB == <<Descriptor("B", "B", "p", "i5", "int")>>
RegA == RegB \o <<Descriptor("A", "A", "parameters", "i5", "int")>>
RegC == RegA \o <<Descriptor("C", "C", "q", "sa", "str")>>
Unbuilt == [built |-> FALSE, params |-> <<>>]
Built(ps) == [built |-> TRUE, params |-> ps]
RegistryDecorated == [c \in Classes |-> CASE c = "A" -> Built(RegA) [] c = "B" -> Built(RegB) [] OTHER -> Built(RegC)]
RegistryUndecorated == [c \in Classes |-> CASE c = "A" -> Built(RegA) [] c = "B" -> Built(RegB) [] OTHER -> Unbuilt]

\* the versioned record and the two sessions, not in use
NoId == 0
NoInstance == [id |-> NoId, name |-> "", version |-> 0, note |-> "", stored |-> FALSE]
\* keyword overrides of new_version: a str-valued key is left out (Absent),
\* None or a str; an int-valued key is left out (AbsentN), None (NoneN) or an int
Absent == "<absent>"
AbsentN == -2
NoneN == -1
NoOverrides == [name |-> Absent, note |-> Absent, bogus |-> Absent,
                version |-> AbsentN, id |-> AbsentN]
NoVerOp == [kind |-> "init", row |-> 0, ret |-> 0, ok |-> TRUE, from |-> NoId,
            onStored |-> FALSE, overrides |-> NoOverrides]
NoCaller == [pc |-> "idle", row |-> 0, seed |-> 0, ret |-> 0]
IdleVersioning ==
    /\ versions = <<>>
    /\ issued = <<>>
    /\ entities = {}
    /\ inst = NoInstance
    /\ verOp = NoVerOp
    /\ callers = [i \in {1, 2} |-> NoCaller]

Init ==
    /\ registry \in {RegistryDecorated, RegistryUndecorated}
    /\ regLog = <<>>
    /\ regRead = FALSE
    /\ regOp = [kind |-> "init", cls |-> "", ok |-> TRUE, ret |-> <<>>]
    /\ params \in {[null |-> TRUE, doc |-> EmptyDoc],
                   [null |-> FALSE, doc |-> EmptyDoc],
                   [null |-> FALSE, doc |-> [EmptyDoc EXCEPT !["p"] = "i0"]]}
    /\ lazy = [n \in LazyNames |-> NoEntry]
    /\ fresh = [n \in LazyNames |-> TRUE]
    /\ op = NoOp
    /\ IdleVersioning

RegistryIdle == UNCHANGED <<regLog, regRead, regOp>>
VersioningIdle == UNCHANGED <<versions, issued, entities, inst, verOp, callers>>
InstanceIdle == UNCHANGED <<params, lazy, fresh, op>>

\* reading the lazy property n of the instance
ReadLazy(n) ==
    LET r == LazyRead(lazy, params, n)
    IN  /\ lazy' = r.lazy
        /\ fresh' = [fresh EXCEPT ![n] = FALSE]
        /\ op' = [NoOp EXCEPT !.kind = "read", !.name = n, !.ran = r.ran, !.entry = r.ret]
        /\ UNCHANGED <<params, registry>>
        /\ RegistryIdle /\ VersioningIdle

\* instance.invalidate(name), name a string or None
DoInvalidate(name) ==
    /\ lazy' = Invalidate(lazy, name)
    /\ fresh' = [n \in LazyNames |-> IF name \in {n, NoName} THEN TRUE ELSE fresh[n]]
    /\ op' = [NoOp EXCEPT !.kind = "invalidate", !.name = name, !.had = HasLazy(lazy, name)]
    /\ UNCHANGED <<params, registry>>
    /\ RegistryIdle /\ VersioningIdle

\* instance.get(name, default)
Get(name, default) ==
    LET r == GetCall(params, lazy, registry, name, default)
    IN  /\ lazy' = r.lazy
        /\ registry' = r.registry
        /\ fresh' = [fresh EXCEPT !["parameters"] = FALSE]
        /\ op' = [NoOp EXCEPT !.kind = "get", !.name = name, !.arg = default, !.ret = r.ret]
        /\ UNCHANGED params
        /\ RegistryIdle /\ VersioningIdle

\* instance.set(name, value)
Set(name, value) ==
    LET r == SetCall(params, lazy, registry, name, value)
    IN  /\ params' = r.params
        /\ lazy' = r.lazy
        /\ registry' = r.registry
        /\ fresh' = IF ~r.ok THEN fresh
                    ELSE [n \in LazyNames |->
                            IF n = "parameters" THEN FALSE
                            ELSE IF n = name THEN TRUE ELSE fresh[n]]
        /\ op' = [NoOp EXCEPT !.kind = "set", !.name = name, !.arg = value, !.ok = r.ok]
        /\ RegistryIdle /\ VersioningIdle

Next ==
    \/ \E n \in LazyNames : ReadLazy(n)
    \/ \E name \in ParamNames \cup {NoName} : DoInvalidate(name)
    \/ \E name \in ParamNames, default \in Values : Get(name, default)
    \/ \E name \in ParamNames, value \in Values : Set(name, value)

Spec == Init /\ [][Next]_vars

(***************************************************************************)
(* Properties of the lazy cache and the parametrized record (Spec).        *)
(***************************************************************************)
\* "name is registered for the instance's class": registered_parameters()
\* holds a descriptor of that name
Registered(reg, name) ==
    name \in NamesOf(RegisteredParameters(reg, InstClass)[InstClass].params)

\* C3: after a successful set(p, v) the next get(p) returns v, the persisted
\* document maps p to v, and every other key keeps its stored value.
C3_SetThenGet ==
    [][(op'.kind = "set" /\ op'.ok) =>
          /\ GetCall(params', lazy', registry', op'.name, None).ret = op'.arg
          /\ ~params'.null /\ params'.doc[op'.name] = op'.arg
          /\ \A k \in ParamNames \ {op'.name} :
                params'.doc[k] = (IF params.null THEN Missing ELSE params.doc[k])]_vars

\* C4: set(name, value) raises ValueError whenever name is not registered for
\* the class and whenever value is no instance of the registered type; when it
\* raises, the persisted document and every later get are as before the call.
C4_SetRejects ==
    [][op'.kind = "set" =>
          /\ (~Registered(registry, op'.name)
                \/ ~IsInstance(op'.arg, ParameterType(registry, InstClass, op'.name)))
             => ~op'.ok
          /\ ~op'.ok =>
                /\ params' = params
                /\ \A n \in ParamNames, d \in Values :
                      GetCall(params', lazy', registry', n, d).ret
                        = GetCall(params, lazy, registry, n, d).ret]_vars

\* a set of an unregistered name and a set of a wrongly typed value, both
\* rejected, on an instance whose document is not empty
C4_Witness ==
    /\ op.kind = "set" /\ ~op.ok
    /\ ~params.null /\ params.doc # EmptyDoc
    /\ \/ op.name = "u"
       \/ op.name = "q" /\ op.arg = "i5" /\ Registered(registry, "q")

\* C5: get(name, default) returns the stored value when the key is present,
\* else the caller's default whenever it is not None, else the registered
\* default.
C5_GetDefault ==
    op.kind = "get" =>
        op.ret = IF ~params.null /\ params.doc[op.name] # Missing
                 THEN params.doc[op.name]
                 ELSE IF op.arg # None THEN op.arg
                 ELSE ParameterDefault(registry, InstClass, op.name)

\* C7: a read of a lazy property runs f exactly when no read has happened
\* since the instance was created or since the last invalidate of it; any
\* other read returns the stored value and runs nothing.
C7_LazyRunsOnce ==
    [][op'.kind = "read" =>
          /\ op'.ran <=> fresh[op'.name]
          /\ ~op'.ran => (op'.entry = lazy[op'.name] /\ lazy' = lazy)
          /\ op'.ran => (op'.entry = LazyF(op'.name, params)
                           /\ lazy'[op'.name] = op'.entry)]_vars

\* a read served from the cache while the other property is not cached, after
\* the property had been invalidated and read again
C7_Witness ==
    /\ op.kind = "read" /\ ~op.ran /\ op.name = "p"
    /\ lazy["p"].cached /\ lazy["p"].val = "i5"
    /\ ~lazy["parameters"].cached

MaxRegistrations == 3

\* register_parameter.__init__: the type is the default's unless one is given
ParameterTypeInit(default, parameter_type) ==
    IF parameter_type = "NoneObj" THEN TypeOf(default) ELSE parameter_type

\* the decorators' arguments: name, default, parameter_type (None when left out)
RegArgs == {<<"p", "i5", "NoneObj">>, <<"q", "None", "str">>, <<"parameters", "sa", "NoneObj">>}

InstanceAtRest ==
    /\ params = [null |-> TRUE, doc |-> EmptyDoc]
    /\ lazy = [n \in LazyNames |-> NoEntry]
    /\ fresh = [n \in LazyNames |-> TRUE]
    /\ op = NoOp

InitRegistry ==
    /\ registry = [c \in Classes |-> Unbuilt]
    /\ regLog = <<>>
    /\ regRead = FALSE
    /\ regOp = [kind |-> "init", cls |-> "", ok |-> TRUE, ret |-> <<>>]
    /\ InstanceAtRest
    /\ IdleVersioning

\* register_parameter(name=name, default=default, parameter_type=ptype,
\* target_class=tcls)(cls); tcls = cls stands for no target class
Register(cls, tcls, name, default, ptype) ==
    LET r == RegisterCall(registry, cls, tcls, name, default,
                          ParameterTypeInit(default, ptype))
    IN  /\ Len(regLog) < MaxRegistrations
        /\ registry' = r.reg
        /\ regLog' = Append(regLog, [decorated |-> cls, cls |-> tcls, name |-> name,
                                     ok |-> r.ok, late |-> regRead])
        /\ regOp' = [kind |-> "register", cls |-> tcls, ok |-> r.ok, ret |-> <<>>]
        /\ UNCHANGED regRead
        /\ InstanceIdle /\ VersioningIdle

\* cls.registered_parameters()
ReadRegistry(cls) ==
    /\ registry' = RegisteredParameters(registry, cls)
    /\ regOp' = [kind |-> "registered_parameters", cls |-> cls, ok |-> TRUE,
                 ret |-> registry'[cls].params]
    /\ regRead' = TRUE
    /\ UNCHANGED regLog
    /\ InstanceIdle /\ VersioningIdle

NextRegistry ==
    \/ \E cls \in Classes, tcls \in Classes, a \in RegArgs :
            Register(cls, tcls, a[1], a[2], a[3])
    \/ \E cls \in Classes : ReadRegistry(cls)

SpecRegistry == InitRegistry /\ [][NextRegistry]_vars

DistinctNames == \A i, j \in DOMAIN regLog : i # j => regLog[i].name # regLog[j].name

\* the names registered on class c or on one of its ancestors
RegisteredFor(c) ==
    {regLog[i].name : i \in {j \in DOMAIN regLog : regLog[j].cls \in {c} \cup Ancestors(c)}}

\* The order class definitions give: every decorator is applied to its own
\* class (no target class), a base class is decorated before its subclasses,
\* and no registry is read before the last decorator has been applied.
DefinitionOrder ==
    /\ \A i \in DOMAIN regLog : regLog[i].decorated = regLog[i].cls /\ ~regLog[i].late
    /\ \A i, j \in DOMAIN regLog : i < j => regLog[j].cls \notin Ancestors(regLog[i].cls)

\* C6: when the names registered are pairwise distinct, registered_parameters()
\* of a class returns exactly one descriptor per name registered on the class
\* or on an ancestor: no name missing and no name twice.  Stated for the
\* sequences of the claim that follow the order of the class definitions.
C6_OnePerName ==
    (regOp.kind = "registered_parameters" /\ DistinctNames /\ DefinitionOrder) =>
        /\ NamesOf(regOp.ret) = RegisteredFor(regOp.cls)
        /\ Len(regOp.ret) = Cardinality(RegisteredFor(regOp.cls))

(***************************************************************************)
(* The version counter and the versioned record, one caller (SpecVersion). *)
(* The versioned class is C, with a column note besides id, name, version. *)
(***************************************************************************)
MaxVersion == 3
MaxRows == 2
VClass == "C"
RecordNames == {"a", "b"}

\* db.session.query(Versions).filter(class_name == cls, record_name == name).first()
FirstCounter(vs, cls, name) ==
    LET idx == {i \in DOMAIN vs : vs[i].class_name = cls /\ vs[i].record_name = name}
    IN  IF idx = {} THEN 0 ELSE CHOOSE i \in idx : \A j \in idx : i <= j

\* func.max(tc.version) over the rows called name, and "v if v else 0"
MaxStored(ents, name) ==
    LET vs == {e.version : e \in {x \in ents : x.name = name}}
    IN  IF vs = {} THEN 0 ELSE CHOOSE v \in vs : \A w \in vs : w <= v

\* a counter that hands out the value it held before the increment
CurrentMaxVersionStale(vs, r) ==
    [versions |-> [vs EXCEPT ![r].max_version = @ + 1], ret |-> vs[r].max_version]

\* Versions.current_max_version on row r: the flush writes the SQL expression
\* versions.max_version + 1, and the value returned is the one read back
CurrentMaxVersion(vs, r) ==
    LET vs1 == [vs EXCEPT ![r].max_version = @ + 1]
    IN  [versions |-> vs1, ret |-> vs1[r].max_version]

\* VersionedMixin.set_version on instance i: the table, the counter row used
\* and the version assigned
SetVersion(vs, ents, i) ==
    LET found == FirstCounter(vs, VClass, i.name)
        vs1 == IF found = 0
               THEN Append(vs, [class_name |-> VClass, record_name |-> i.name,
                                max_version |-> MaxStored(ents, i.name)])
               ELSE vs
        r == IF found = 0 THEN Len(vs1) ELSE found
        c == CurrentMaxVersion(vs1, r)
    IN  [versions |-> c.versions, row |-> r, version |-> c.ret]

\* hasattr(self, key)
HasAttr(key) == key \in {"id", "name", "version", "note"}

\* the loop of new_version over kwargs
ApplyOverrides(i, ov) ==
    [i EXCEPT
       !.name = IF HasAttr("name") /\ ov.name \notin {Absent, None} THEN ov.name ELSE @,
       !.note = IF HasAttr("note") /\ ov.note \notin {Absent, None} THEN ov.note ELSE @,
       !.version = IF HasAttr("version") /\ ov.version \notin {AbsentN, NoneN}
                   THEN ov.version ELSE @,
       !.id = IF HasAttr("id") /\ ov.id \notin {AbsentN, NoneN} THEN ov.id ELSE @]

\* a new_version that leaves the surrogate id in place
NewVersionKeepsId(vs, ents, i, ov) ==
    LET sv == SetVersion(vs, ents, i)
        transient == [i EXCEPT !.version = sv.version, !.stored = FALSE]
    IN  [versions |-> sv.versions, row |-> sv.row, inst |-> ApplyOverrides(transient, ov)]

\* VersionedMixin.new_version(**ov) on instance i
NewVersionCall(vs, ents, i, ov) ==
    LET sv == SetVersion(vs, ents, i)
        transient == [i EXCEPT !.version = sv.version, !.stored = FALSE, !.id = NoId]
    IN  [versions |-> sv.versions, row |-> sv.row, inst |-> ApplyOverrides(transient, ov)]

OverrideChoices ==
    {NoOverrides,
     [NoOverrides EXCEPT !.note = "y"],
     [NoOverrides EXCEPT !.note = None, !.bogus = "z"],
     [NoOverrides EXCEPT !.name = "b"],
     [NoOverrides EXCEPT !.name = None, !.version = NoneN, !.id = NoneN],
     [NoOverrides EXCEPT !.version = 1],
     [NoOverrides EXCEPT !.id = 1, !.note = "y"]}

InitVersion ==
    /\ registry = [c \in Classes |-> Unbuilt]
    /\ regLog = <<>>
    /\ regRead = FALSE
    /\ regOp = [kind |-> "init", cls |-> "", ok |-> TRUE, ret |-> <<>>]
    /\ InstanceAtRest
    /\ \E n \in RecordNames, v \in 1..2 :
        /\ entities = {[id |-> 1, name |-> n, version |-> v, note |-> "x"]}
        /\ versions \in
             {<<>>,
              <<[class_name |-> "D", record_name |-> n, max_version |-> 0]>>,
              <<[class_name |-> VClass, record_name |-> n, max_version |-> v]>>}
    /\ issued = [r \in DOMAIN versions |-> 0]
    /\ inst = NoInstance
    /\ verOp = NoVerOp
    /\ callers = [i \in {1, 2} |-> NoCaller]

OthersIdle == UNCHANGED <<registry, regLog, regRead, regOp, params, lazy, fresh, op, callers>>

\* the instance the session loads from the row with this id
Load(id) ==
    /\ \E e \in entities :
          /\ e.id = id
          /\ inst' = [id |-> e.id, name |-> e.name, version |-> e.version,
                      note |-> e.note, stored |-> TRUE]
    /\ verOp' = [NoVerOp EXCEPT !.kind = "load"]
    /\ UNCHANGED <<versions, issued, entities>>
    /\ OthersIdle

\* inst.new_version(**ov)
NewVersion(ov) ==
    LET r == NewVersionCall(versions, entities, inst, ov)
    IN  /\ inst.name # ""
        /\ r.versions[r.row].max_version <= MaxVersion
        /\ versions' = r.versions
        /\ issued' = [k \in DOMAIN r.versions |->
                        IF k = r.row THEN r.versions[k].max_version
                        ELSE IF k \in DOMAIN issued THEN issued[k] ELSE 0]
        /\ inst' = r.inst
        /\ verOp' = [NoVerOp EXCEPT !.kind = "new_version", !.row = r.row,
                                    !.ret = r.versions[r.row].max_version,
                                    !.from = inst.id, !.onStored = inst.stored,
                                    !.overrides = ov]
        /\ UNCHANGED entities
        /\ OthersIdle

\* db.session.add(inst); db.session.commit(): a transient instance becomes a
\* new row, under the next id when it has none
Insert ==
    LET ids == {e.id : e \in entities}
        id == IF inst.id = NoId
              THEN (CHOOSE m \in ids \cup {0} : \A k \in ids : k <= m) + 1
              ELSE inst.id
    IN  /\ inst.name # "" /\ ~inst.stored
        /\ Cardinality(entities) < MaxRows
        /\ IF id \in ids
           THEN /\ verOp' = [NoVerOp EXCEPT !.kind = "insert", !.ok = FALSE]
                /\ UNCHANGED <<entities, inst>>
           ELSE /\ entities' = entities \cup
                      {[id |-> id, name |-> inst.name, version |-> inst.version,
                        note |-> inst.note]}
                /\ inst' = [inst EXCEPT !.id = id, !.stored = TRUE]
                /\ verOp' = [NoVerOp EXCEPT !.kind = "insert"]
        /\ UNCHANGED <<versions, issued>>
        /\ OthersIdle

\* row.current_max_version() called on counter row r
BumpCounter(r) ==
    LET c == CurrentMaxVersion(versions, r)
    IN  /\ r \in DOMAIN versions
        /\ versions[r].max_version < MaxVersion
        /\ versions' = c.versions
        /\ issued' = [issued EXCEPT ![r] = c.ret]
        /\ verOp' = [NoVerOp EXCEPT !.kind = "current_max_version", !.row = r, !.ret = c.ret]
        /\ UNCHANGED <<entities, inst>>
        /\ OthersIdle

NextVersion ==
    \/ \E id \in 1..MaxRows : Load(id)
    \/ \E ov \in OverrideChoices : NewVersion(ov)
    \/ Insert
    \/ \E r \in 1..Cardinality(RecordNames) + 1 : BumpCounter(r)

SpecVersion == InitVersion /\ [][NextVersion]_vars

\* C10: no two stored rows of the class carry the same (name, version).
C10_UniqueNameVersion ==
    \A e1, e2 \in entities :
        (e1.name = e2.name /\ e1.version = e2.version) => e1 = e2

\* the counter value the claims call m: max_version of the counter row of
\* (C, name), or with no such row the highest version stored for name, else 0
CounterBefore(vs, ents, name) ==
    IF FirstCounter(vs, VClass, name) # 0
    THEN vs[FirstCounter(vs, VClass, name)].max_version
    ELSE MaxStored(ents, name)

GivenS(v) == v \notin {Absent, None}
GivenN(v) == v \notin {AbsentN, NoneN}

\* the row stored under the id of the instance keeps the version it had
OriginalRowKept ==
    \A e \in entities : e.id = inst.id =>
        \E f \in entities' : f.id = e.id /\ f.version = e.version /\ f.name = e.name

\* the str-valued overrides are applied when given and not None, else ignored
StrOverridesApplied(ov) ==
    /\ inst'.name = (IF GivenS(ov.name) THEN ov.name ELSE inst.name)
    /\ inst'.note = (IF GivenS(ov.note) THEN ov.note ELSE inst.note)

C2_CounterIncrements ==
    [][/\ \A r \in DOMAIN versions :
             r \in DOMAIN versions' /\ versions'[r].max_version >= versions[r].max_version
       /\ (verOp'.kind \in {"current_max_version", "new_version"}
              /\ verOp'.row \in DOMAIN versions) =>
             LET r == verOp'.row
                 k == versions[r].max_version
             IN  /\ verOp'.ret = k + 1
                 /\ versions'[r].max_version = k + 1
                 /\ issued[r] # 0 => verOp'.ret = issued[r] + 1]_vars

\* a call that returned 3 on the counter row of a name whose only stored row
\* has version 1: the row was incremented at least twice
C2_Witness ==
    /\ verOp.kind = "current_max_version"
    /\ verOp.ret = 3 /\ versions[verOp.row].max_version = 3
    /\ versions[verOp.row].class_name = VClass
    /\ \E e \in entities :
          entities = {e} /\ e.version = 1 /\ e.name = versions[verOp.row].record_name

(***************************************************************************)
(* Two sessions, each running set_version for the same name of class C,    *)
(* statement by statement (SpecConcurrent).  The database runs each        *)
(* statement atomically; an UPDATE holds its row until the commit that     *)
(* follows it in the same flush.                                           *)
(***************************************************************************)
MaxSeed == 2
Callers == {1, 2}
CName == "a"

InitConcurrent ==
    /\ registry = [c \in Classes |-> Unbuilt]
    /\ regLog = <<>>
    /\ regRead = FALSE
    /\ regOp = [kind |-> "init", cls |-> "", ok |-> TRUE, ret |-> <<>>]
    /\ InstanceAtRest
    /\ \E v \in 1..MaxSeed :
        /\ entities = {[id |-> 1, name |-> CName, version |-> v, note |-> "x"]}
        /\ versions \in
             {<<>>,
              <<[class_name |-> "D", record_name |-> CName, max_version |-> 0]>>,
              <<[class_name |-> VClass, record_name |-> CName, max_version |-> v]>>,
              <<[class_name |-> VClass, record_name |-> CName, max_version |-> v + 1]>>}
    /\ issued = [r \in DOMAIN versions |-> 0]
    /\ inst = NoInstance
    /\ verOp = NoVerOp
    /\ callers = [i \in Callers |-> NoCaller]

ConcurrentIdle ==
    UNCHANGED <<registry, regLog, regRead, regOp, params, lazy, fresh, op,
                entities, inst, verOp, issued>>

\* lines 337-338: the session loads the counter row, max_version with it
Query(i) ==
    LET r == FirstCounter(versions, VClass, CName)
    IN  /\ callers[i].pc = "idle"
        /\ callers' = [callers EXCEPT ![i] =
                          IF r = 0 THEN [@ EXCEPT !.pc = "missing"]
                          ELSE [@ EXCEPT !.pc = "have", !.row = r,
                                         !.seed = versions[r].max_version]]
        /\ UNCHANGED versions
        /\ ConcurrentIdle

\* lines 340-344: no row was found, the seed is the highest version stored
SeedCounter(i) ==
    /\ callers[i].pc = "missing"
    /\ callers' = [callers EXCEPT ![i] =
                      [@ EXCEPT !.pc = "seeded", !.seed = MaxStored(entities, CName)]]
    /\ UNCHANGED versions
    /\ ConcurrentIdle

\* lines 345-346: the new counter row is inserted and committed
InsertCounter(i) ==
    /\ callers[i].pc = "seeded"
    /\ versions' = Append(versions, [class_name |-> VClass, record_name |-> CName,
                                     max_version |-> callers[i].seed])
    /\ callers' = [callers EXCEPT ![i] = [@ EXCEPT !.pc = "have", !.row = Len(versions')]]
    /\ ConcurrentIdle

\* a flush that writes the value the session read plus one
FlushedFromMemory(vs, c) == [vs EXCEPT ![c.row].max_version = c.seed + 1]

\* the UPDATE that the flush of lines 298-300 sends for session i: the value
\* max_version is assigned is the SQL expression versions.max_version + 1
FlushedCounter(vs, c) == CurrentMaxVersion(vs, c.row).versions

\* lines 298-300: assign the expression, add, commit
UpdateCommit(i) ==
    /\ callers[i].pc = "have"
    /\ versions' = FlushedCounter(versions, callers[i])
    /\ callers' = [callers EXCEPT ![i] = [@ EXCEPT !.pc = "committed"]]
    /\ ConcurrentIdle

\* line 301: the attribute expired by the flush is read back from the row
ReadBack(i) ==
    /\ callers[i].pc = "committed"
    /\ callers' = [callers EXCEPT ![i] =
                      [@ EXCEPT !.pc = "done", !.ret = versions[callers[i].row].max_version]]
    /\ UNCHANGED versions
    /\ ConcurrentIdle

NextConcurrent ==
    \/ \E i \in Callers : Query(i)
    \/ \E i \in Callers : SeedCounter(i)
    \/ \E i \in Callers : InsertCounter(i)
    \/ \E i \in Callers : UpdateCommit(i)
    \/ \E i \in Callers : ReadBack(i)

SpecConcurrent == InitConcurrent /\ [][NextConcurrent]_vars

BothDone == \A i \in Callers : callers[i].pc = "done"
\* the counter row of the pair, as set_version finds it
LogicalRow == FirstCounter(versions, VClass, CName)

====
